---- MODULE Spec2Model ----
(***************************************************************************)
(* Model of the Zoho OAuth credential handler (src/src/zoho_auth.py,       *)
(* class ZohoAuth and the callback listener CallbackServer).               *)
(*                                                                         *)
(* State: the handler's in-memory credential fields (mem), the durable     *)
(* token file (file), the wall clock in seconds (now), and the outcome of  *)
(* the last public call (out).  Every public method is one action; the     *)
(* provider's answers, the browser redirects and the file-system faults    *)
(* are inputs drawn from small sets.                                       *)
(*                                                                         *)
(* Specifications:                                                         *)
(*   Spec          the handler's public methods, each call one step        *)
(*   ListenerSpec  the interactive flow alone, down to its listener socket *)
(*   HttpSpec      the calls that POST, stopped at requests.post until the *)
(*                 provider answers                                        *)
(*   ServerSpec    the server process of src/src/server.py around the      *)
(*                 handler: import, run, tool calls                        *)
(*   WriterSpec    the write of the token file step by step, beside a      *)
(*                 reader of the same path                                 *)
(*   RaceSpec      two callers of get_valid_access_token on one handler    *)
(***************************************************************************)
EXTENDS Integers, Sequences, FiniteSets, TLC

VARIABLES mem, file, now, out

vars == <<mem, file, now, out>>

----------------------------------------------------------------------------
(* Values *)

\* Python None (also a JSON null once parsed).
None == "None"
\* None in a numeric slot (token_expires_at before any token is held).
NoneNum == -1
\* A key that a dict does not carry.
ABSENT == "<absent>"

\* is_token_valid: "doesn't expire within the next 5 minutes".
Margin == 300
\* _save_tokens: tokens.get('expires_in', 3600).
DefaultExpiresIn == 3600
\* authorize_interactive: server.timeout = 300.
ServerTimeout == 300
\* authorize_interactive: while time.time() - start_time < 300.
WaitDeadline == 300

\* ZohoAuth.__init__: api_domain default argument (the configured default).
ConfigApiDomain == "https://www.zohoapis.com"
\* ZohoAuth.__init__: self.scope, the configured scope string; it is assigned
\* once, at construction.
ConfigScope == "S1"

\* Bounds of the model.
StartTime == 10000
TickStep == Margin
MaxTicks == 3
MaxNow == StartTime + MaxTicks * TickStep
MaxScript == 1

\* Python truthiness of a string-or-None and of a number-or-None.
Truthy(v) == v # None /\ v # "" /\ v # ABSENT
TruthyNum(n) == n # NoneNum /\ n # 0

----------------------------------------------------------------------------
(* The durable record (token file) *)

AbsentFile ==
  [kind |-> "absent", access_token |-> None, refresh_token |-> None,
   expires_at |-> NoneNum, api_domain |-> ABSENT, scope |-> ABSENT]

\* Content that json.load rejects (also what open(path,'w') followed by a
\* failed or interrupted json.dump leaves: an empty or cut-off file).
InvalidJsonFile == [AbsentFile EXCEPT !.kind = "invalid_json"]

\* Valid JSON that is not an object (a list, a number); it has no .get.
NotObjectFile == [AbsentFile EXCEPT !.kind = "not_object"]

ObjectFile(a, r, e, d) ==
  [kind |-> "object", access_token |-> a, refresh_token |-> r,
   expires_at |-> e, api_domain |-> d, scope |-> ABSENT]

\* The record with its scope entry.
Scoped(f, s) == [f EXCEPT !.scope = s]

\* The files a process may find at start: none, a malformed one, a record
\* this program wrote earlier, a hand-made object lacking keys.
InitFiles ==
  {AbsentFile, InvalidJsonFile, NotObjectFile, ObjectFile("T1", "R1", NoneNum, ABSENT)} \cup
  { Scoped(ObjectFile(a, r, e, "D1"), ConfigScope) :
      a \in {None, "T1"}, r \in {None, "R1"},
      e \in {StartTime + TickStep, StartTime + 3 * TickStep} }

----------------------------------------------------------------------------
(* In-memory credential fields *)

\* ZohoAuth.__init__ lines 82-85.
EmptyMem ==
  [access_token |-> None, refresh_token |-> None,
   token_expires_at |-> NoneNum, api_domain_for_tokens |-> None]

\* Variant of _load_tokens without the try/except around the read: a
\* malformed file makes the constructor raise.
_load_tokens_uncaught(m, f) ==
  IF f.kind = "absent" THEN [mem |-> m, raised |-> FALSE]
  ELSE IF f.kind = "object" THEN
    [mem |-> [access_token |-> f.access_token,
              refresh_token |-> f.refresh_token,
              token_expires_at |-> f.expires_at,
              api_domain_for_tokens |->
                 IF f.api_domain = ABSENT THEN ConfigApiDomain ELSE f.api_domain],
     raised |-> FALSE]
  ELSE [mem |-> m, raised |-> TRUE]

\* Variant of _load_tokens that takes the record's expires_at as the time of
\* the save and adds the default lifetime to it, and reads the API domain
\* from configuration.
_load_tokens_recomputed(m, f) ==
  IF f.kind = "absent" THEN [mem |-> m, raised |-> FALSE]
  ELSE IF f.kind = "object" THEN
    [mem |-> [access_token |-> f.access_token,
              refresh_token |-> f.refresh_token,
              token_expires_at |->
                 IF f.expires_at = NoneNum THEN NoneNum ELSE f.expires_at + DefaultExpiresIn,
              api_domain_for_tokens |-> ConfigApiDomain],
     raised |-> FALSE]
  ELSE [mem |-> m, raised |-> FALSE]

\* _load_tokens: nothing is assigned unless the file exists, json.load
\* succeeds and the value has .get; every exception is caught and logged.
_load_tokens(m, f) ==
  IF f.kind = "absent" THEN [mem |-> m, raised |-> FALSE]
  ELSE IF f.kind = "object" THEN
    [mem |-> [access_token |-> f.access_token,
              refresh_token |-> f.refresh_token,
              token_expires_at |-> f.expires_at,
              api_domain_for_tokens |->
                 IF f.api_domain = ABSENT THEN ConfigApiDomain ELSE f.api_domain],
     raised |-> FALSE]
  ELSE [mem |-> m, raised |-> FALSE]

\* ZohoAuth.__init__: clear the fields, then load.
Construct(f) == _load_tokens(EmptyMem, f)

\* Variant of is_token_valid that applies the safety margin twice.
is_token_valid_wide(m, t) ==
  IF ~Truthy(m.access_token) \/ ~TruthyNum(m.token_expires_at) THEN FALSE
  ELSE t + Margin < m.token_expires_at - Margin

\* is_token_valid.
is_token_valid(m, t) ==
  IF ~Truthy(m.access_token) \/ ~TruthyNum(m.token_expires_at) THEN FALSE
  ELSE t < m.token_expires_at - Margin

\* Variant of get_api_domain that derives the base URL from configuration.
get_api_domain_configured(m) == ConfigApiDomain

\* get_api_domain.
get_api_domain(m) ==
  IF Truthy(m.api_domain_for_tokens) THEN m.api_domain_for_tokens ELSE ConfigApiDomain

----------------------------------------------------------------------------
(* Token responses of the provider *)

AllKeys == {"access_token", "refresh_token", "expires_in", "api_domain", "scope"}

\* The scope string the provider echoes in a response.
ProviderScope == "S2"

MkBody(K, a, r, e, d) ==
  [keys |-> K,
   access_token  |-> IF "access_token" \in K THEN a ELSE None,
   refresh_token |-> IF "refresh_token" \in K THEN r ELSE None,
   expires_in    |-> IF "expires_in" \in K THEN e ELSE 0,
   api_domain    |-> IF "api_domain" \in K THEN d ELSE None,
   scope         |-> IF "scope" \in K THEN ProviderScope ELSE None]

\* dict.get(k, default)
Get(b, k, default) == IF k \in b.keys THEN b[k] ELSE default

\* JSON objects a 200 answer of the token endpoint may carry: the full
\* answer, the answers lacking one key, the empty object (an error body), a
\* short-lived token, a null refresh token, an answer with only access_token
\* and expires_in.
FullBody == MkBody(AllKeys, "T2", "R2", 3 * TickStep, "D2")
ShortBody == MkBody(AllKeys, "T3", "R2", Margin, "D2")

Bodies ==
  { MkBody(AllKeys \ K, "T2", "R2", 3 * TickStep, "D2") :
      K \in {{}, AllKeys} \cup { {k} : k \in AllKeys } } \cup
  { ShortBody, MkBody(AllKeys, "T3", None, 2 * TickStep, "D2"),
    MkBody({"access_token", "expires_in"}, "T2", "R2", 3 * TickStep, "D2") }

NoBody == MkBody({}, None, None, 0, None)

\* What requests.post + response.json() + the file system give one exchange:
\*   net    "ok" | "error"   (a transport failure raises)
\*   status 200 | 400
\*   json   TRUE when the 200 body parses to an object
\*   io     how the write of the record goes: "ok", "open_fail" (makedirs or
\*          open raises), "write_fail" (json.dump raises after the truncation)
IoFaults == {"open_fail", "write_fail"}

Outcome(n, s, j, b, i) == [net |-> n, status |-> s, json |-> j, body |-> b, io |-> i]
CanonOutcome == Outcome("error", 400, FALSE, NoBody, "ok")

FailedOutcomes ==
  { Outcome("ok", 200, TRUE, FullBody, i) : i \in IoFaults } \cup
  { Outcome("ok", 200, FALSE, NoBody, "ok"),
    Outcome("ok", 400, FALSE, NoBody, "ok"),
    CanonOutcome }

\* Answers to the refresh POST.
TokenOutcomes == { Outcome("ok", 200, TRUE, b, "ok") : b \in Bodies } \cup FailedOutcomes

\* Answers to the code-exchange POST.
CodeOutcomes ==
  { Outcome("ok", 200, TRUE, b, "ok") :
      b \in {FullBody, ShortBody, NoBody, MkBody(AllKeys \ {"refresh_token"}, "T2", "R2", 3 * TickStep, "D2")} } \cup
  { Outcome("ok", 200, TRUE, FullBody, "write_fail"),
    Outcome("ok", 400, FALSE, NoBody, "ok"),
    CanonOutcome }

----------------------------------------------------------------------------
(* The world a call runs in: the handler, the file, the clock, what the    *)
(* call has done so far (log) and the response it saved (saved).           *)

World(m, f, t) == [mem |-> m, file |-> f, now |-> t, log |-> <<>>, saved |-> <<>>]

Ev(e, a) == [ev |-> e, arg |-> a]
Log(w, e, a) == [w EXCEPT !.log = Append(@, Ev(e, a))]
Count(log, e) == Cardinality({ i \in 1..Len(log) : log[i].ev = e })
Has(log, e) == Count(log, e) > 0

----------------------------------------------------------------------------
(* Token Store: save *)

\* _save_tokens lines 125-129: memory is set from the record just written.
Written(w, tokens, token_data) ==
  [w EXCEPT !.file = token_data,
            !.mem = [access_token |-> token_data.access_token,
                     refresh_token |-> token_data.refresh_token,
                     token_expires_at |-> token_data.expires_at,
                     api_domain_for_tokens |-> token_data.api_domain],
            !.saved = Append(@, tokens)]

\* Variant of _save_tokens that takes the refresh token from the response
\* alone (tokens.get('refresh_token') with no fallback to the held one).
_save_tokens_drop_refresh(w, tokens, io) ==
  IF io = "open_fail" THEN [w |-> w, raised |-> TRUE]
  ELSE IF io = "write_fail" THEN
    [w |-> [w EXCEPT !.file = InvalidJsonFile], raised |-> TRUE]
  ELSE
    [w |-> Written(w, tokens,
                   Scoped(ObjectFile(Get(tokens, "access_token", None),
                                     Get(tokens, "refresh_token", None),
                                     w.now + Get(tokens, "expires_in", DefaultExpiresIn),
                                     Get(tokens, "api_domain", get_api_domain(w.mem))),
                          Get(tokens, "scope", ConfigScope))),
     raised |-> FALSE]

\* Variant of _save_tokens that reads the lifetime under a wrong key, so that
\* the default of 3600 s is always taken.
_save_tokens_default_lifetime(w, tokens, io) ==
  IF io = "open_fail" THEN [w |-> w, raised |-> TRUE]
  ELSE IF io = "write_fail" THEN
    [w |-> [w EXCEPT !.file = InvalidJsonFile], raised |-> TRUE]
  ELSE
    [w |-> Written(w, tokens,
                   Scoped(ObjectFile(Get(tokens, "access_token", None),
                                     Get(tokens, "refresh_token", w.mem.refresh_token),
                                     w.now + DefaultExpiresIn,
                                     Get(tokens, "api_domain", get_api_domain(w.mem))),
                          Get(tokens, "scope", ConfigScope))),
     raised |-> FALSE]

\* _save_tokens: builds the record, writes the file, then updates memory.
\* A fault before the file is opened leaves the file as it was; open(path,'w')
\* truncates, so a fault during json.dump leaves an empty or cut-off file.
\* Any exception is logged and re-raised.
_save_tokens(w, tokens, io) ==
  IF io = "open_fail" THEN [w |-> w, raised |-> TRUE]
  ELSE IF io = "write_fail" THEN
    [w |-> [w EXCEPT !.file = InvalidJsonFile], raised |-> TRUE]
  ELSE
    [w |-> Written(w, tokens,
                   Scoped(ObjectFile(Get(tokens, "access_token", None),
                                     Get(tokens, "refresh_token", w.mem.refresh_token),
                                     w.now + Get(tokens, "expires_in", DefaultExpiresIn),
                                     Get(tokens, "api_domain", get_api_domain(w.mem))),
                          Get(tokens, "scope", ConfigScope))),
     raised |-> FALSE]

----------------------------------------------------------------------------
(* Token Exchanger *)

\* try: ... except Exception: log; return False
Caught(r) == IF r.raised THEN [w |-> r.w, ret |-> FALSE, raised |-> FALSE] ELSE r

\* The result of a call, with the line it logs on success or on failure.
Logged(r, good, bad) == [r EXCEPT !.w = Log(r.w, IF r.ret THEN good ELSE bad, None)]

\* Lines 213-215 and 244-246: the exchange succeeds when the save did not
\* raise.
Saved(s) == [w |-> s.w, ret |-> ~s.raised, raised |-> s.raised]

\* The part shared by both exchanges once requests.post was called: a
\* transport error or an unparsable body raises, a 200 saves, anything else
\* returns False.
AfterPost(w, o) ==
  IF o.net = "error" THEN [w |-> w, ret |-> FALSE, raised |-> TRUE]
  ELSE IF o.status = 200 THEN
    IF ~o.json THEN [w |-> w, ret |-> FALSE, raised |-> TRUE]
    ELSE Saved(_save_tokens(w, o.body, o.io))
  ELSE [w |-> w, ret |-> FALSE, raised |-> FALSE]

\* Variant of _exchange_code_for_tokens that reports success on a 200 answer
\* without handing the response to _save_tokens.
_exchange_code_for_tokens_no_save(w, auth_code, o) ==
  IF o.net = "ok" /\ o.status = 200 /\ o.json THEN
    Logged([w |-> Log(w, "code_post", auth_code), ret |-> TRUE, raised |-> FALSE],
           "exchanged", "exchange_failed")
  ELSE Logged(Caught(AfterPost(Log(w, "code_post", auth_code), o)), "exchanged", "exchange_failed")

\* _exchange_code_for_tokens
_exchange_code_for_tokens(w, auth_code, o) ==
  Logged(Caught(AfterPost(Log(w, "code_post", auth_code), o)), "exchanged", "exchange_failed")

\* Variant of refresh_access_token that sends the POST a second time when
\* the first attempt fails.
Retried(first, o) ==
  IF first.ret THEN first
  ELSE Caught(AfterPost(Log(first.w, "refresh_post", first.w.mem.refresh_token), o))

refresh_access_token_retry(w, o) ==
  IF ~Truthy(w.mem.refresh_token) THEN
    [w |-> Log(w, "no_refresh_token", None), ret |-> FALSE, raised |-> FALSE]
  ELSE
    Logged(Retried(Caught(AfterPost(Log(w, "refresh_post", w.mem.refresh_token), o)), o),
           "refreshed", "refresh_failed")

\* Variant of refresh_access_token without the test of lines 226-228: the
\* POST is sent whether or not a refresh token is held.
refresh_access_token_unguarded(w, o) ==
  Logged(Caught(AfterPost(Log(w, "refresh_post", w.mem.refresh_token), o)),
         "refreshed", "refresh_failed")

\* refresh_access_token
refresh_access_token(w, o) ==
  IF ~Truthy(w.mem.refresh_token) THEN
    [w |-> Log(w, "no_refresh_token", None), ret |-> FALSE, raised |-> FALSE]
  ELSE
    Logged(Caught(AfterPost(Log(w, "refresh_post", w.mem.refresh_token), o)),
           "refreshed", "refresh_failed")

----------------------------------------------------------------------------
(* Authorization Code Flow: the local listener *)

CallbackPath == <<"/callback">>

\* A redirect URI as the handler is configured with (self.redirect_uri): the
\* authorization URL carries it, and the provider sends the user's browser
\* back to it.  The usual one is http://localhost:8080/callback.
RedirectUri(host, port, path) == [host |-> host, port |-> port, path |-> path]
DefaultRedirectUri == RedirectUri("localhost", 8080, CallbackPath)

\* Line 164: the address the listener is constructed on.
ListenerAddress == [host |-> "localhost", port |-> 8080]

\* str.startswith
StartsWith(s, p) == Len(s) >= Len(p) /\ SubSeq(s, 1, Len(p)) = p

\* A GET the listener receives: the path (a sequence of pieces), the query's
\* code and error parameters (ABSENT when not given), and how many seconds
\* after the previous event it arrives (less than the server timeout).
Request(p, c, e) == [kind |-> "request", path |-> p, code |-> c, error |-> e, delay |-> 0]
\* The same request arriving d seconds after the previous event.
Delayed(req, d) == [req EXCEPT !.delay = d]
\* handle_request gives up after server.timeout seconds without a request.
TimeoutEv == [kind |-> "timeout", path |-> <<>>, code |-> ABSENT, error |-> ABSENT,
              delay |-> ServerTimeout]

Requests ==
  { Request(CallbackPath, "ABC", ABSENT),
    Request(CallbackPath, ABSENT, "access_denied"),
    Request(CallbackPath, ABSENT, ABSENT),
    Request(<<"/callback", "X">>, "XYZ", ABSENT),
    Request(<<"/favicon.ico">>, "XYZ", ABSENT) }

\* The listener as constructed at lines 164-166, with the status lines it has
\* sent (replies) and the requests that set auth_code or auth_error
\* (redirects, kept for the record; the code stores only the parameter).
NewServer == [auth_code |-> None, auth_error |-> None, replies |-> <<>>, redirects |-> <<>>]

Redirect(req) == [path |-> req.path, code |-> req.code, error |-> req.error]

\* CallbackServer.do_GET
do_GET(srv, req) ==
  IF StartsWith(req.path, CallbackPath) THEN
    IF req.code # ABSENT THEN
      [srv EXCEPT !.auth_code = req.code, !.replies = Append(@, 200),
                  !.redirects = Append(@, Redirect(req))]
    ELSE IF req.error # ABSENT THEN
      [srv EXCEPT !.auth_error = req.error, !.replies = Append(@, 400),
                  !.redirects = Append(@, Redirect(req))]
    ELSE srv
  ELSE [srv EXCEPT !.replies = Append(@, 404)]

\* HTTPServer.handle_request: serve one request, or time out.
handle_request(srv, ev) == IF ev.kind = "timeout" THEN srv ELSE do_GET(srv, ev)

\* The event the next handle_request call meets; when the script of incoming
\* events is used up nothing more arrives and handle_request times out.
NextEvent(script) == IF script = <<>> THEN TimeoutEv ELSE Head(script)
Rest(script) == IF script = <<>> THEN <<>> ELSE Tail(script)

\* The wait loop of authorize_interactive (lines 175-179): WaitLoop is the
\* while test and the handle_request call, Served the break test after it.
\* The result is the listener, the time, and the requests that were sent to
\* the listener and not served by the time the loop ended (rest).
RECURSIVE WaitLoop(_, _, _, _)
RECURSIVE Served(_, _, _, _)
WaitLoop(srv, start_time, t, script) ==
  IF ~(t - start_time < WaitDeadline) THEN [srv |-> srv, now |-> t, rest |-> script]
  ELSE Served(handle_request(srv, NextEvent(script)), start_time,
              t + NextEvent(script).delay, Rest(script))

\* Variant of the break test that leaves the loop only once no request is
\* waiting: requests that follow the resolving one are served as well.
Served_until_idle(srv, start_time, t, rest) ==
  IF (Truthy(srv.auth_code) \/ Truthy(srv.auth_error)) /\ rest = <<>>
  THEN [srv |-> srv, now |-> t, rest |-> rest]
  ELSE WaitLoop(srv, start_time, t, rest)

Served(srv, start_time, t, rest) ==
  IF Truthy(srv.auth_code) \/ Truthy(srv.auth_error)
  THEN [srv |-> srv, now |-> t, rest |-> rest]
  ELSE WaitLoop(srv, start_time, t, rest)

\* What the environment gives one interactive flow: whether the listener
\* can bind, the events the listener sees, the answer to the code exchange,
\* and what the runtime does with the server object once the call returns.
\* The code never calls server.server_close(): the listening socket is closed
\* only if the runtime finalizes the unreferenced object ("finalized"), and
\* stays bound while it does not ("pending").
Inter(b, s, x) ==
  [bind |-> b, script |-> s, x |-> x, gc |-> "pending", uri |-> DefaultRedirectUri]
Finalized(i) == [i EXCEPT !.gc = "finalized"]
\* The same flow of a handler configured with the redirect URI u.
Configured(i, u) == [i EXCEPT !.uri = u]
CanonInter == Inter("fail", <<>>, CanonOutcome)

\* Lines 153-164: the banner is printed and the listener is constructed.
Started(w) == Log(Log(w, "interactive_start", None), "listener_bind", ListenerAddress)

\* Variant of lines 181-190 that logs the provider's error but does not
\* return on it, and goes on to the code exchange.
AfterWait_error_falls_through(w, l, x) ==
  IF Truthy(l.srv.auth_error) THEN
    _exchange_code_for_tokens(Log(w, "auth_error", l.srv.auth_error), l.srv.auth_code, x)
  ELSE IF ~Truthy(l.srv.auth_code) THEN
    [w |-> Log(w, "auth_timeout", None), ret |-> FALSE, raised |-> FALSE]
  ELSE _exchange_code_for_tokens(w, l.srv.auth_code, x)

\* Lines 181-190: what follows the wait loop, l being the loop's result and
\* w the world at the time the loop ended.
AfterWait(w, l, x) ==
  IF Truthy(l.srv.auth_error) THEN
    [w |-> Log(w, "auth_error", l.srv.auth_error), ret |-> FALSE, raised |-> FALSE]
  ELSE IF ~Truthy(l.srv.auth_code) THEN
    [w |-> Log(w, "auth_timeout", None), ret |-> FALSE, raised |-> FALSE]
  ELSE _exchange_code_for_tokens(w, l.srv.auth_code, x)

\* The redirects the listener took a code or an error from during the wait,
\* then the requests it was sent and did not serve.
Received(w, l) ==
  [w EXCEPT !.log = @ \o [i \in 1..Len(l.srv.redirects) |-> Ev("redirect", l.srv.redirects[i])]
                      \o [i \in 1..Len(l.rest) |-> Ev("not_served", Redirect(l.rest[i]))]]

\* Lines 169-190: the browser is opened, the loop runs, time has passed.
Waited(w, l, x) == AfterWait(Received([w EXCEPT !.now = l.now], l), l, x)

\* Variant of authorize_interactive that opens the browser first and
\* constructs the listener after it.
AuthorizeBody_browser_first(w, inp) ==
  IF inp.bind = "fail"
  THEN [w |-> Log(Log(Log(w, "interactive_start", None), "browser_open", inp.uri),
                  "listener_bind", ListenerAddress),
        ret |-> FALSE, raised |-> TRUE]
  ELSE Waited(Log(Log(Log(w, "interactive_start", None), "browser_open", inp.uri),
                  "listener_bind", ListenerAddress),
              WaitLoop(NewServer, w.now, w.now, inp.script), inp.x)

\* authorize_interactive, without its try/except.
AuthorizeBody(w, inp) ==
  IF inp.bind = "fail" THEN [w |-> Started(w), ret |-> FALSE, raised |-> TRUE]
  ELSE Waited(Log(Started(w), "browser_open", inp.uri),
              WaitLoop(NewServer, w.now, w.now, inp.script), inp.x)

\* Lines 192-194: except Exception: log; return False
CaughtInteractive(r) ==
  IF r.raised THEN [w |-> Log(r.w, "interactive_error", None), ret |-> FALSE, raised |-> FALSE]
  ELSE r

\* The return of authorize_interactive: the local variable server goes out
\* of scope with its socket still open (no server_close on any path); the
\* socket is released only if the runtime finalizes the object right away.
\* A constructor that failed to bind has closed its own socket.
Returned(r, inp) ==
  IF inp.bind = "ok" /\ inp.gc = "finalized"
  THEN [r EXCEPT !.w = Log(r.w, "socket_closed", "finalizer")]
  ELSE r

\* Variant of authorize_interactive without the try/except: a listener that
\* cannot be started raises to the caller.
authorize_interactive_uncaught(w, inp) == Returned(AuthorizeBody(w, inp), inp)

\* authorize_interactive
authorize_interactive(w, inp) == Returned(CaughtInteractive(AuthorizeBody(w, inp)), inp)

----------------------------------------------------------------------------
(* Credential Supervisor *)

\* Lines 274-278: a is what authorize_interactive returned.
AfterAuthorize(a) ==
  IF a.raised THEN [w |-> a.w, ret |-> None, raised |-> TRUE]
  ELSE IF a.ret THEN [w |-> a.w, ret |-> a.w.mem.access_token, raised |-> FALSE]
  ELSE [w |-> a.w, ret |-> None, raised |-> FALSE]

\* Lines 270-278: r is what refresh_access_token returned.
AfterRefresh(r, inp) ==
  IF r.raised THEN [w |-> r.w, ret |-> None, raised |-> TRUE]
  ELSE IF r.ret THEN [w |-> r.w, ret |-> r.w.mem.access_token, raised |-> FALSE]
  ELSE AfterAuthorize(authorize_interactive(r.w, inp))

\* get_valid_access_token: ro answers the refresh POST, inp drives the
\* interactive flow; either is consulted only if the code gets that far.
get_valid_access_token(w, ro, inp) ==
  IF is_token_valid(w.mem, w.now) THEN
    [w |-> w, ret |-> w.mem.access_token, raised |-> FALSE]
  ELSE AfterRefresh(refresh_access_token(w, ro), inp)

NoHeaders == [Authorization |-> <<>>, ContentType |-> None]

\* Lines 287-293: g is what get_valid_access_token returned.
\* f'Zoho-oauthtoken {token}' is the scheme, a space, the token.
Headers(g) ==
  IF g.raised THEN [w |-> g.w, ret |-> NoHeaders, token |-> g.ret, raised |-> TRUE]
  ELSE IF ~Truthy(g.ret) THEN
    [w |-> g.w, ret |-> NoHeaders, token |-> g.ret, raised |-> TRUE]
  ELSE [w |-> g.w,
        ret |-> [Authorization |-> <<"Zoho-oauthtoken", " ", g.ret>>,
                 ContentType |-> "application/json"],
        token |-> g.ret,
        raised |-> FALSE]

\* get_headers
get_headers(w, ro, inp) == Headers(get_valid_access_token(w, ro, inp))

----------------------------------------------------------------------------
(* Revocation *)

\* What the environment gives one revoke: the answer to the POST and whether
\* os.remove succeeds.
RevokeInputs == { [net |-> n, status |-> s, remove |-> d] :
                    n \in {"ok", "error"}, s \in {200, 400}, d \in {"ok", "fail"} }

\* Variant of lines 306-317 that calls os.remove without asking whether the
\* file exists: a missing file raises.
Cleanup_unguarded(w, o) ==
  IF w.file.kind # "absent" /\ o.remove = "ok" THEN
    [w |-> [Log(w, "remove", "ok") EXCEPT !.mem = EmptyMem, !.file = AbsentFile],
     ret |-> TRUE, raised |-> FALSE]
  ELSE [w |-> Log([w EXCEPT !.mem = EmptyMem], "remove", "fail"), ret |-> FALSE, raised |-> TRUE]

\* Lines 306-317: the fields are cleared, then the file is removed if it
\* exists.
Cleanup(w, o) ==
  IF w.file.kind # "absent" THEN
    IF o.remove = "fail" THEN
      [w |-> Log([w EXCEPT !.mem = EmptyMem], "remove", "fail"), ret |-> FALSE, raised |-> TRUE]
    ELSE [w |-> [Log(w, "remove", "ok") EXCEPT !.mem = EmptyMem, !.file = AbsentFile],
          ret |-> TRUE, raised |-> FALSE]
  ELSE [w |-> [w EXCEPT !.mem = EmptyMem], ret |-> TRUE, raised |-> FALSE]

\* Lines 299-301: the POST to the revoke endpoint and its answer.
Posted(w, o) ==
  Log(Log(w, "revoke_post", w.mem.refresh_token), "response",
      IF o.net = "error" THEN "error" ELSE ToString(o.status))

\* revoke_tokens, without its try/except: ret is meaningful when not raised.
RevokeBody(w, o) ==
  IF ~Truthy(w.mem.refresh_token) THEN Cleanup(w, o)
  ELSE IF o.net = "error" THEN [w |-> Posted(w, o), ret |-> FALSE, raised |-> TRUE]
  ELSE Cleanup(Posted(w, o), o)

\* Variant of revoke_tokens that treats a non-200 answer of the revoke
\* endpoint as fatal (response.raise_for_status()) before any cleanup.
revoke_tokens_strict(w, o) ==
  IF Truthy(w.mem.refresh_token) /\ o.net = "ok" /\ o.status # 200 THEN
    Logged([w |-> Posted(w, o), ret |-> FALSE, raised |-> FALSE], "revoked", "revoke_failed")
  ELSE Logged(Caught(RevokeBody(w, o)), "revoked", "revoke_failed")

\* revoke_tokens
revoke_tokens(w, o) == Logged(Caught(RevokeBody(w, o)), "revoked", "revoke_failed")

----------------------------------------------------------------------------
(* The inputs each call consults *)

\* Incoming-event scripts in which every event is consumed by the wait loop.
RECURSIVE SeqsUpTo(_, _)
SeqsUpTo(S, n) ==
  IF n = 0 THEN {<<>>}
  ELSE LET shorter == SeqsUpTo(S, n - 1)
       IN  shorter \cup { Append(s, x) : s \in { q \in shorter : Len(q) = n - 1 }, x \in S }

Resolved(srv) == Truthy(srv.auth_code) \/ Truthy(srv.auth_error)

RECURSIVE Run(_, _)
Run(srv, script) ==
  IF script = <<>> THEN srv ELSE Run(handle_request(srv, Head(script)), Tail(script))

Scripts ==
  { s \in SeqsUpTo(Requests, MaxScript) :
      \A i \in 1..Len(s) : i < Len(s) => ~Resolved(Run(NewServer, SubSeq(s, 1, i))) }

BoundInputs ==
  { Inter("ok", s, x) : s \in { q \in Scripts : ~Truthy(Run(NewServer, q).auth_code) },
                        x \in {CanonOutcome} } \cup
  { Inter("ok", s, x) : s \in { q \in Scripts : Truthy(Run(NewServer, q).auth_code) },
                        x \in CodeOutcomes }

InterInputs == {CanonInter} \cup BoundInputs

\* The flows in which every request reaches the listener one second before
\* the handle_request call in progress would give up.
DelayedFlows ==
  { [i EXCEPT !.script = [k \in 1..Len(@) |-> Delayed(@[k], ServerTimeout - 1)]] :
      i \in { j \in BoundInputs : j.script # <<>> } }

\* The flows in which one more redirect, with another code or with an error,
\* is sent to the listener after the request that resolves the flow.
TrailingFlows ==
  { [i EXCEPT !.script = Append(@, q)] :
      i \in { j \in BoundInputs : Resolved(Run(NewServer, j.script)) },
      q \in { Request(CallbackPath, "DEF", ABSENT),
              Request(CallbackPath, ABSENT, "access_denied") } }

\* What reaches the listener of a redirect sent to the URI u: the request,
\* on the path of u, when u names the address the listener is on; nothing
\* when it names another one.
Arrives(u, req) ==
  IF u.host = ListenerAddress.host /\ u.port = ListenerAddress.port
  THEN <<[req EXCEPT !.path = u.path]>>
  ELSE <<>>

\* The flows of a handler configured with another port, or another path, in
\* which the user grants access and the provider redirects to that URI with
\* a code.
ConfiguredFlows ==
  { Configured(Inter("ok", Arrives(u, Request(u.path, "ABC", ABSENT)), x), u) :
      u \in { RedirectUri("localhost", 9000, CallbackPath),
              RedirectUri("localhost", 8080, <<"/oauth", "/cb">>) },
      x \in CodeOutcomes }

\* The flows of Spec, each with both things the runtime may do with the
\* dropped server object, the flows with late requests, the flows with
\* requests after the resolving one, and the flows under another redirect URI.
ListenerInputs ==
  InterInputs \cup { Finalized(i) : i \in BoundInputs } \cup DelayedFlows \cup TrailingFlows
    \cup ConfiguredFlows

W0 == World(mem, file, now)

\* The inputs worth trying for a supervisor call.  An input the call never
\* consults is held at its placeholder: no refresh answer while the token is
\* valid or no refresh token is held, no interactive flow while the token is
\* valid or the refresh succeeds.  Used(r, ro, inp) keeps a step only if the
\* call did consult every input that is not a placeholder.
RefreshChoices ==
  IF is_token_valid(mem, now) \/ ~Truthy(mem.refresh_token)
  THEN {CanonOutcome} ELSE TokenOutcomes

Succeeds(ro) == ro.net = "ok" /\ ro.status = 200 /\ ro.json /\ ro.io = "ok"

InterChoices(ro) ==
  IF is_token_valid(mem, now) \/ (Truthy(mem.refresh_token) /\ Succeeds(ro))
  THEN {CanonInter} ELSE InterInputs

Used(r, ro, inp) ==
  /\ Has(r.w.log, "refresh_post") \/ ro = CanonOutcome
  /\ Has(r.w.log, "interactive_start") \/ inp = CanonInter

----------------------------------------------------------------------------
(* Actions: one per public call *)

NoOut == [op |-> "none", token |-> None, ok |-> FALSE, headers |-> NoHeaders,
          raised |-> FALSE, log |-> <<>>, saved |-> <<>>]

\* The call's effects become the new state, its result the new out.
Commit(r, o) ==
  /\ r.w.now <= MaxNow
  /\ mem' = r.w.mem
  /\ file' = r.w.file
  /\ now' = r.w.now
  /\ out' = [o EXCEPT !.raised = r.raised, !.log = r.w.log, !.saved = r.w.saved]

Init ==
  \E f \in InitFiles :
    /\ file = f
    /\ mem = Construct(f).mem
    /\ now = StartTime
    /\ out = [NoOut EXCEPT !.op = "construct", !.raised = Construct(f).raised]

ReturnToken(r, ro, inp) ==
  /\ Used(r, ro, inp)
  /\ Commit(r, [NoOut EXCEPT !.op = "get_valid_access_token", !.token = r.ret])

GetValidAccessToken ==
  \E ro \in RefreshChoices :
    \E inp \in InterChoices(ro) :
      ReturnToken(get_valid_access_token(W0, ro, inp), ro, inp)

ReturnHeaders(r, ro, inp) ==
  /\ Used(r, ro, inp)
  /\ Commit(r, [NoOut EXCEPT !.op = "get_headers", !.headers = r.ret, !.token = r.token])

GetHeaders ==
  \E ro \in RefreshChoices :
    \E inp \in InterChoices(ro) :
      ReturnHeaders(get_headers(W0, ro, inp), ro, inp)

ReturnBool(r, name) == Commit(r, [NoOut EXCEPT !.op = name, !.ok = r.ret])

RefreshAccessToken ==
  \E ro \in (IF Truthy(mem.refresh_token) THEN TokenOutcomes ELSE {CanonOutcome}) :
    ReturnBool(refresh_access_token(W0, ro), "refresh_access_token")

AuthorizeInteractive ==
  \E inp \in InterInputs :
    ReturnBool(authorize_interactive(W0, inp), "authorize_interactive")

RevokeTokens ==
  \E o \in RevokeInputs :
    ReturnBool(revoke_tokens(W0, o), "revoke_tokens")

\* The process ends and a new one constructs its handler on the same file.
Restart ==
  /\ mem' = Construct(file).mem
  /\ out' = [NoOut EXCEPT !.op = "construct", !.raised = Construct(file).raised]
  /\ UNCHANGED <<file, now>>

\* Time passes between calls.
Tick ==
  /\ now + TickStep <= MaxNow
  /\ now' = now + TickStep
  /\ out' = [NoOut EXCEPT !.op = "tick"]
  /\ UNCHANGED <<mem, file>>

Next ==
  \/ GetValidAccessToken
  \/ GetHeaders
  \/ RefreshAccessToken
  \/ AuthorizeInteractive
  \/ RevokeTokens
  \/ Restart
  \/ Tick

Spec == Init /\ [][Next]_vars

\* The interactive flow on its own, followed down to its listener socket:
\* Spec leaves the runtime's finalizer out (nothing the handler reads depends
\* on it), this specification lets it run or not after every flow.
ListenerFlow ==
  \E inp \in ListenerInputs :
    ReturnBool(authorize_interactive(W0, inp), "authorize_interactive")

ListenerNext ==
  \/ ListenerFlow
  \/ Restart
  \/ Tick

ListenerSpec == Init /\ [][ListenerNext]_vars

----------------------------------------------------------------------------
(* The outbound POSTs, one step at a time *)

\* Spec takes a call and the provider's answer as one step.  Here a call
\* that reaches requests.post (lines 209, 240, 301) stops there until the
\* provider answers: the three calls pass no timeout argument, so nothing but
\* an answer (a response, or a transport error) ends the wait.  out holds the
\* call in progress: its name, where it is (pc: "posting", "answered",
\* "returned"), which POST it waits on (stage), the interactive flow that led
\* to a code exchange (inp), what it returned, and, once the answer is in,
\* the state the rest of the call leads to (then).
HttpCall(op, pc, stage, inp) ==
  [op |-> op, pc |-> pc, stage |-> stage, inp |-> inp, ok |-> FALSE, token |-> None,
   then |-> <<>>]

\* The flows in which the listener binds and a redirect delivers a code, up
\* to the code exchange; and the flows that end without one.
CodeFlows ==
  { Inter("ok", s, CanonOutcome) : s \in { q \in Scripts : Truthy(Run(NewServer, q).auth_code) } }
OtherFlows ==
  {CanonInter} \cup
  { Inter("ok", s, CanonOutcome) : s \in { q \in Scripts : ~Truthy(Run(NewServer, q).auth_code) } }

Answered(inp, o) == [inp EXCEPT !.x = o]

\* A first run, and a run that finds the record of an earlier one.
HttpFiles ==
  {AbsentFile, Scoped(ObjectFile("T1", "R1", StartTime + TickStep, "D1"), ConfigScope)}

HttpInit ==
  \E f \in HttpFiles :
    /\ file = f
    /\ mem = Construct(f).mem
    /\ now = StartTime
    /\ out = HttpCall("construct", "returned", "none", CanonInter)

Posting(op, stage, inp) ==
  /\ out' = HttpCall(op, "posting", stage, inp)
  /\ UNCHANGED <<mem, file, now>>

\* A call is made and runs up to its requests.post.
SendRefresh ==
  /\ out.pc = "returned"
  /\ Truthy(mem.refresh_token)
  /\ Posting("refresh_access_token", "refresh", CanonInter)

SendSupervisorRefresh ==
  /\ out.pc = "returned"
  /\ ~is_token_valid(mem, now)
  /\ Truthy(mem.refresh_token)
  /\ Posting("get_valid_access_token", "refresh", CanonInter)

SendSupervisorCode ==
  /\ out.pc = "returned"
  /\ ~is_token_valid(mem, now)
  /\ ~Truthy(mem.refresh_token)
  /\ \E inp \in CodeFlows : Posting("get_valid_access_token", "code", inp)

SendCode ==
  /\ out.pc = "returned"
  /\ \E inp \in CodeFlows : Posting("authorize_interactive", "code", inp)

SendRevoke ==
  /\ out.pc = "returned"
  /\ Truthy(mem.refresh_token)
  /\ Posting("revoke_tokens", "revoke", CanonInter)

\* The answer is in: r is what the rest of the call makes of it, o the call
\* as it stands after that.
Pending(r, o) ==
  /\ r.w.now <= MaxNow
  /\ out' = [out EXCEPT !.pc = "answered",
                         !.then = [mem |-> r.w.mem, file |-> r.w.file, now |-> r.w.now,
                                   out |-> o]]
  /\ UNCHANGED <<mem, file, now>>

ReturnedBool(r, op) ==
  Pending(r, [HttpCall(op, "returned", "none", CanonInter) EXCEPT !.ok = r.ret])

ReturnedToken(r) ==
  Pending(r, [HttpCall("get_valid_access_token", "returned", "none", CanonInter)
                EXCEPT !.token = r.ret])

\* get_valid_access_token after its refresh failed (lines 273-278): the
\* interactive flow either ends without a code, or reaches the code exchange.
Escalated(r) ==
  \/ \E inp \in OtherFlows : ReturnedToken(AfterAuthorize(authorize_interactive(r.w, inp)))
  \/ \E inp \in CodeFlows :
       Pending(r, HttpCall("get_valid_access_token", "posting", "code", inp))

SupervisorRefreshed(r) ==
  IF r.ret THEN ReturnedToken(AfterRefresh(r, CanonInter)) ELSE Escalated(r)

\* The provider answers, or the connection fails; nothing obliges it to.
\* The answer decides how the call goes on.
ProviderAnswers ==
  /\ out.pc = "posting"
  /\ \/ /\ out.op = "refresh_access_token"
        /\ \E o \in TokenOutcomes : ReturnedBool(refresh_access_token(W0, o), out.op)
     \/ /\ out.op = "get_valid_access_token" /\ out.stage = "refresh"
        /\ \E o \in TokenOutcomes : SupervisorRefreshed(refresh_access_token(W0, o))
     \/ /\ out.op = "get_valid_access_token" /\ out.stage = "code"
        /\ \E o \in CodeOutcomes :
             ReturnedToken(AfterAuthorize(authorize_interactive(W0, Answered(out.inp, o))))
     \/ /\ out.op = "authorize_interactive"
        /\ \E o \in CodeOutcomes :
             ReturnedBool(authorize_interactive(W0, Answered(out.inp, o)), out.op)
     \/ /\ out.op = "revoke_tokens"
        /\ \E o \in RevokeInputs : ReturnedBool(revoke_tokens(W0, o), out.op)

\* With the answer in hand the call runs on to its return, or to its next
\* POST.
CallContinues ==
  /\ out.pc = "answered"
  /\ mem' = out.then.mem
  /\ file' = out.then.file
  /\ now' = out.then.now
  /\ out' = out.then.out

\* Time passes, also while a call waits.
HttpTick ==
  /\ now + TickStep <= MaxNow
  /\ now' = now + TickStep
  /\ UNCHANGED <<mem, file, out>>

HttpNext ==
  \/ SendRefresh
  \/ SendSupervisorRefresh
  \/ SendSupervisorCode
  \/ SendCode
  \/ SendRevoke
  \/ ProviderAnswers
  \/ CallContinues
  \/ HttpTick

\* The code runs whenever it can, and time passes; the provider is under no
\* obligation.
HttpSpec ==
  /\ HttpInit
  /\ [][HttpNext]_vars
  /\ WF_vars(CallContinues)
  /\ WF_vars(HttpTick)

----------------------------------------------------------------------------
(* The server process (src/src/server.py) around the handler *)

\* Here out is the process: where it is (phase: "import", "loaded",
\* "serving"), the two values it reads from its environment, whether the
\* global auth holds a handler, how the last step ended (result) and what
\* requests the last tool call sent (log).  mem is the handler's memory once
\* there is one.
Server(phase, id, secret) ==
  [phase |-> phase, client_id |-> id, client_secret |-> secret, auth |-> FALSE,
   result |-> "none", log |-> <<>>]

\* os.getenv of a variable that is unset, set to the empty string, or set.
EnvValues == {None, "", "set"}

ServerInit ==
  \E f \in InitFiles, id \in EnvValues, secret \in EnvValues :
    /\ file = f
    /\ mem = EmptyMem
    /\ now = StartTime
    /\ out = Server("import", id, secret)

\* Variant of init_auth without the check of the two values.
init_auth_unchecked(id, secret, f) ==
  [raised |-> FALSE, auth |-> TRUE, mem |-> Construct(f).mem]

\* init_auth: ValueError unless both values are set and non-empty; otherwise
\* the handler is constructed (and loads the record).
init_auth(id, secret, f) ==
  IF ~Truthy(id) \/ ~Truthy(secret)
  THEN [raised |-> TRUE, auth |-> FALSE, mem |-> EmptyMem]
  ELSE [raised |-> FALSE, auth |-> TRUE, mem |-> Construct(f).mem]

\* Lines 724-730: init_auth on import; a failure is logged and swallowed
\* ("Authentication will be initialized on first tool call").
Imported(i) ==
  /\ mem' = i.mem
  /\ out' = [out EXCEPT !.phase = "loaded", !.auth = i.auth,
                         !.result = IF i.raised THEN "init_failed" ELSE "initialized"]
  /\ UNCHANGED <<file, now>>

ModuleInit ==
  /\ out.phase = "import"
  /\ Imported(init_auth(out.client_id, out.client_secret, file))

\* Lines 732-733: mcp.run().
ServerRun ==
  /\ out.phase = "loaded"
  /\ out' = [out EXCEPT !.phase = "serving", !.result = "none"]
  /\ UNCHANGED <<mem, file, now>>

\* A tool call ends: r is what the handler did, res how the call ended.
ToolReturned(r, res, sent) ==
  /\ r.w.now <= MaxNow
  /\ mem' = r.w.mem
  /\ file' = r.w.file
  /\ now' = r.w.now
  /\ out' = [out EXCEPT !.auth = TRUE, !.result = res, !.log = r.w.log \o sent]

\* require_auth (lines 70-71) found no handler and init_auth raised: the
\* exception leaves the wrapper, the tool call fails, the process serves on.
ToolRefused ==
  /\ out' = [out EXCEPT !.result = "ValueError", !.log = <<>>]
  /\ UNCHANGED <<mem, file, now>>

\* make_api_request (lines 84-103): get_headers raises, or the API request
\* is sent with the headers.
ApiRequested(r, ro, inp) ==
  /\ Used(r, ro, inp)
  /\ IF r.raised THEN ToolReturned(r, "no_token", <<>>)
     ELSE ToolReturned(r, "api_request", <<Ev("api_request", r.token)>>)

\* The handler a tool call works with: the global one, or the one
\* require_auth has just constructed.
HandlerMem(i) == IF out.auth THEN mem ELSE i.mem

ApiCalled(i) ==
  IF ~out.auth /\ i.raised THEN ToolRefused
  ELSE \E ro \in TokenOutcomes, inp \in InterInputs :
         ApiRequested(get_headers(World(HandlerMem(i), file, now), ro, inp), ro, inp)

\* A tool that goes through make_api_request (get_modules, get_records, ...).
ApiTool ==
  /\ out.phase = "serving"
  /\ ApiCalled(init_auth(out.client_id, out.client_secret, file))

RevokeCalled(i) ==
  IF ~out.auth /\ i.raised THEN ToolRefused
  ELSE \E o \in RevokeInputs :
         ToolReturned(revoke_tokens(World(HandlerMem(i), file, now), o), "revoke", <<>>)

\* revoke_authentication (lines 184-211).
RevokeTool ==
  /\ out.phase = "serving"
  /\ RevokeCalled(init_auth(out.client_id, out.client_secret, file))

ServerTick ==
  /\ now + TickStep <= MaxNow
  /\ now' = now + TickStep
  /\ UNCHANGED <<mem, file, out>>

ServerNext ==
  \/ ModuleInit
  \/ ServerRun
  \/ ApiTool
  \/ RevokeTool
  \/ ServerTick

ServerSpec == ServerInit /\ [][ServerNext]_vars

----------------------------------------------------------------------------
(* The write of the record, one step at a time, beside a reader *)

\* Spec takes _save_tokens as one step.  Here its write (lines 122-123) is
\* followed through: open(path, 'w') truncates the file in place, json.dump
\* writes the text piece by piece, leaving the with-block closes the file;
\* meanwhile another process may read the same path (a second handler being
\* constructed, running _load_tokens).  out holds the writer's position (pc:
\* "idle", "open", "writing"), the response being saved (tokens) and what the
\* reader saw last (seen).
Writer(pc, tokens, seen) == [pc |-> pc, tokens |-> tokens, seen |-> seen]

NotRead == [AbsentFile EXCEPT !.kind = "not_read"]

\* The files a save may find: none, or a complete record.
CompleteFiles == { f \in InitFiles : f.kind \in {"absent", "object"} }

WriterInit ==
  \E f \in CompleteFiles :
    /\ file = f
    /\ mem = Construct(f).mem
    /\ now = StartTime
    /\ out = Writer("idle", NoBody, NotRead)

\* Lines 106-122: the record is built and the file opened for writing, which
\* empties it; the file is now what an interrupted write would leave.
SaveOpens ==
  /\ out.pc = "idle"
  /\ \E b \in Bodies :
       /\ out' = [out EXCEPT !.pc = "open", !.tokens = b]
       /\ file' = _save_tokens(W0, b, "write_fail").w.file
  /\ UNCHANGED <<mem, now>>

\* Line 123: json.dump has written part of the text.
SaveWrites ==
  /\ out.pc = "open"
  /\ out' = [out EXCEPT !.pc = "writing"]
  /\ UNCHANGED <<mem, file, now>>

\* Lines 123-129: the rest is written, the file is closed, memory is set.
SaveCloses ==
  /\ out.pc = "writing"
  /\ mem' = _save_tokens(W0, out.tokens, "ok").w.mem
  /\ file' = _save_tokens(W0, out.tokens, "ok").w.file
  /\ out' = [out EXCEPT !.pc = "idle"]
  /\ UNCHANGED now

\* Another process opens the path and reads what is there (lines 92-95).
ReaderLoads ==
  /\ out' = [out EXCEPT !.seen = file]
  /\ UNCHANGED <<mem, file, now>>

WriterTick ==
  /\ now + TickStep <= MaxNow
  /\ now' = now + TickStep
  /\ UNCHANGED <<mem, file, out>>

WriterNext ==
  \/ SaveOpens
  \/ SaveWrites
  \/ SaveCloses
  \/ ReaderLoads
  \/ WriterTick

WriterSpec == WriterInit /\ [][WriterNext]_vars

----------------------------------------------------------------------------
(* Two callers of get_valid_access_token on one handler *)

\* Spec takes a call as one step, so no two calls overlap.  Here two threads
\* call get_valid_access_token on the same handler; the method takes no lock
\* and the handler holds none.  A caller is followed from one blocking point
\* to the next: out.pc[c] is where caller c is ("idle", "posting" inside the
\* requests.post of the refresh, "listening" inside the wait loop of the
\* interactive flow, "returned"), out.token[c] what its last call returned.
Callers == {1, 2}

Race(pos) == [pc |-> [c \in Callers |-> pos], token |-> [c \in Callers |-> None]]

RaceInit ==
  \E f \in InitFiles :
    /\ file = f
    /\ mem = Construct(f).mem
    /\ now = StartTime
    /\ out = Race("idle")

\* Caller c has run on to position pos, leaving the world w.
CallerAt(c, w, pos, tok) ==
  /\ w.now <= MaxNow
  /\ mem' = w.mem
  /\ file' = w.file
  /\ now' = w.now
  /\ out' = [out EXCEPT !.pc[c] = pos, !.token[c] = tok]

\* Lines 273-274 and 164: the caller goes on to the interactive flow and
\* constructs its listener.  The port is fixed, so the bind fails while
\* another flow of this process is listening on it (and may fail otherwise);
\* the failure is caught at line 192 and the call returns nothing.
Escalates(c, w) ==
  \E b \in (IF \E d \in Callers : out.pc[d] = "listening" THEN {"fail"} ELSE {"ok", "fail"}) :
    CallerAt(c, w, IF b = "ok" THEN "listening" ELSE "returned", None)

\* Lines 265-270 and 226-240: the validity test, then the test for a refresh
\* token, then the POST.
CallerEnters(c) ==
  /\ out.pc[c] \in {"idle", "returned"}
  /\ IF is_token_valid(mem, now) THEN CallerAt(c, W0, "returned", mem.access_token)
     ELSE IF Truthy(mem.refresh_token) THEN CallerAt(c, W0, "posting", None)
     ELSE Escalates(c, W0)

\* Lines 270-273: r is how the refresh ended.
Refreshed(c, r) ==
  IF r.ret THEN CallerAt(c, r.w, "returned", r.w.mem.access_token) ELSE Escalates(c, r.w)

\* Lines 240-253: the answer to the caller's refresh POST arrives; the save
\* works on the handler as it is by then.
CallerRefreshed(c) ==
  /\ out.pc[c] = "posting"
  /\ \E o \in TokenOutcomes : Refreshed(c, Caught(AfterPost(W0, o)))

Authorized(c, g) == CallerAt(c, g.w, "returned", g.ret)

\* Lines 175-190 and 274-278: the caller's wait loop ends and the flow runs
\* to its return.
CallerAuthorized(c) ==
  /\ out.pc[c] = "listening"
  /\ \E inp \in BoundInputs : Authorized(c, AfterAuthorize(authorize_interactive(W0, inp)))

RaceNext ==
  \E c \in Callers :
    \/ CallerEnters(c)
    \/ CallerRefreshed(c)
    \/ CallerAuthorized(c)

RaceSpec == RaceInit /\ [][RaceNext]_vars

----------------------------------------------------------------------------
(* Properties *)

HasEv(log, e, a) == \E i \in 1..Len(log) : log[i] = Ev(e, a)
\* Every e1 event of the log comes before every e2 event.
Before(log, e1, e2) ==
  \A i, j \in 1..Len(log) : (log[i].ev = e1 /\ log[j].ev = e2) => i < j

\* The held token is stale in the sense of the supervisor's step 1: no access
\* token, or now >= expires_at - 300 s.
Stale ==
  \/ ~Truthy(mem.access_token)
  \/ (mem.token_expires_at # NoneNum /\ now >= mem.token_expires_at - Margin)

\* C1: a get_valid_access_token call made while the held token is stale and
\* a refresh token is held sends exactly one refresh POST, and starts the
\* interactive flow only after that refresh was attempted and failed, never
\* when it succeeded.
C1_OneRefreshThenEscalate ==
  [][ (Stale /\ Truthy(mem.refresh_token) /\ out'.op = "get_valid_access_token") =>
        LET l == out'.log
        IN  /\ Count(l, "refresh_post") = 1
            /\ Has(l, "interactive_start") =>
                 /\ Has(l, "refresh_failed")
                 /\ Before(l, "refresh_post", "interactive_start")
                 /\ Before(l, "refresh_failed", "interactive_start")
            /\ Has(l, "refreshed") => ~Has(l, "interactive_start") ]_vars

\* C1 witness: a call that sent the refresh POST, saw it fail, went on to the
\* interactive flow and came back with a token.
C1_Witness ==
  /\ out.op = "get_valid_access_token"
  /\ Count(out.log, "refresh_post") = 1
  /\ Has(out.log, "refresh_failed")
  /\ Has(out.log, "interactive_start")
  /\ Truthy(out.token)

\* C2: while an access token is held and now < expires_at - 300 s,
\* get_valid_access_token returns the held token, makes no network call,
\* starts no listener or browser, and changes neither memory nor the file.
C2_ValidTokenNoNetwork ==
  [][ ( /\ Truthy(mem.access_token)
        /\ mem.token_expires_at # NoneNum
        /\ now < mem.token_expires_at - Margin
        /\ out'.op = "get_valid_access_token" ) =>
        /\ out'.token = mem.access_token
        /\ ~out'.raised
        /\ out'.log = <<>>
        /\ mem' = mem
        /\ file' = file
        /\ now' = now ]_vars

\* C2 witness: a call answered from the held token with nothing done.
C2_Witness ==
  /\ out.op = "get_valid_access_token"
  /\ out.log = <<>>
  /\ Truthy(out.token)
  /\ out.token = mem.access_token
  /\ now < mem.token_expires_at - Margin

\* C3: whenever get_valid_access_token returns a token, it is the held access
\* token and now < expires_at - 300 s holds at the moment of return, whatever
\* lifetime the provider declared.
C3_ReturnedTokenIsValid ==
  (out.op = "get_valid_access_token" /\ out.token # None) =>
    /\ out.token = mem.access_token
    /\ mem.token_expires_at # NoneNum
    /\ now < mem.token_expires_at - Margin

\* C4: get_valid_access_token never raises; when the interactive flow fails
\* (listener cannot start, provider error, timeout, exchange rejected or
\* network error) it returns nothing; one call starts at most one interactive
\* flow and sends at most one code-exchange POST.
InteractiveFailed(l) ==
  \/ Has(l, "interactive_error")
  \/ Has(l, "auth_error")
  \/ Has(l, "auth_timeout")
  \/ Has(l, "exchange_failed")

C5_FailedExchangeLeavesState ==
  [][ ( \/ (out'.op = "refresh_access_token" /\ ~out'.ok)
        \/ (out'.op = "authorize_interactive" /\ Has(out'.log, "exchange_failed")) ) =>
        (mem' = mem /\ file' = file) ]_vars

\* C6: after a successful save of a response without a refresh_token field,
\* memory and the durable record hold the refresh token held before the save,
\* the response's access token, and expires_at = save time + expires_in.
C6_RefreshTokenRetained ==
  [][ (out'.saved # <<>> /\ "refresh_token" \notin out'.saved[1].keys) =>
        LET b == out'.saved[1]
        IN  /\ Len(out'.saved) = 1
            /\ file'.kind = "object"
            /\ mem'.refresh_token = mem.refresh_token
            /\ file'.refresh_token = mem.refresh_token
            /\ "access_token" \in b.keys =>
                 (mem'.access_token = b.access_token /\ file'.access_token = b.access_token)
            /\ "expires_in" \in b.keys =>
                 /\ mem'.token_expires_at = now' + b.expires_in
                 /\ file'.expires_at = now' + b.expires_in ]_vars

\* C6 witness: a refresh answered {access_token: T2, expires_in} with no
\* refresh_token, after which the refresh token loaded at start is still held.
C6_Witness ==
  /\ out.op = "refresh_access_token"
  /\ out.ok
  /\ out.saved # <<>>
  /\ out.saved[1].keys = {"access_token", "expires_in"}
  /\ mem.access_token = "T2"
  /\ mem.refresh_token = "R1"
  /\ file.refresh_token = "R1"
  /\ mem.token_expires_at = now + 3 * TickStep

\* C7 as stated: when a refresh token is held and the revoke endpoint answers
\* non-2xx, revoke_tokens clears every in-memory field, deletes the durable
\* record and returns true.
C7_RevokeNon2xxAlwaysSucceeds ==
  (out.op = "revoke_tokens" /\ HasEv(out.log, "response", "400")) =>
    /\ mem = EmptyMem
    /\ file.kind = "absent"
    /\ out.ok

\* C7 amended: when a refresh token is held and the revoke endpoint answers
\* non-2xx, revoke_tokens clears every in-memory field; it deletes the
\* durable record and returns true unless removing the file itself fails, in
\* which case the record stays and it returns false.
C7_RevokeNon2xxCleansUp ==
  (out.op = "revoke_tokens" /\ HasEv(out.log, "response", "400")) =>
    /\ Has(out.log, "revoke_post")
    /\ mem = EmptyMem
    /\ ~out.raised
    /\ IF HasEv(out.log, "remove", "fail")
       THEN ~out.ok /\ file.kind # "absent"
       ELSE out.ok /\ file.kind = "absent"

\* C7 witness: a revoke answered 400 that removed the file and returned true.
C7_Witness ==
  /\ out.op = "revoke_tokens"
  /\ HasEv(out.log, "revoke_post", "R1")
  /\ HasEv(out.log, "response", "400")
  /\ HasEv(out.log, "remove", "ok")
  /\ out.ok
  /\ mem = EmptyMem
  /\ file.kind = "absent"

\* C8: when a refresh token is held and the revoke POST fails at the
\* transport level, local cleanup still proceeds: after revoke_tokens returns
\* every in-memory field is cleared and the durable record is deleted.
C8_RevokeTransportFailureCleansUp ==
  (out.op = "revoke_tokens" /\ HasEv(out.log, "response", "error")) =>
    /\ mem = EmptyMem
    /\ file.kind = "absent"

\* C9: construction never fails because of the durable record: with the
\* record missing or malformed (invalid JSON, or JSON that is not an object)
\* it completes with access_token, refresh_token and expires_at absent and
\* is_token_valid false.
C9_MalformedRecordUnauthenticated ==
  (out.op = "construct" /\ file.kind \in {"absent", "invalid_json", "not_object"}) =>
    /\ ~out.raised
    /\ mem.access_token = None
    /\ mem.refresh_token = None
    /\ mem.token_expires_at = NoneNum
    /\ ~is_token_valid(mem, now)

\* C9 witness: a process restarted, after time has passed, on a file that is
\* not valid JSON.
C9_Witness ==
  /\ out.op = "construct"
  /\ now > StartTime
  /\ file.kind = "invalid_json"
  /\ ~out.raised
  /\ mem = EmptyMem

\* C10: get_headers returns exactly Authorization = 'Zoho-oauthtoken <token>'
\* and Content-Type = 'application/json' when a token was obtained and raises
\* when none was; and a get_headers call made right after
\* get_valid_access_token returned a token succeeds and carries a token.
C10_HeadersOrRaise ==
  [][ out'.op = "get_headers" =>
        /\ IF Truthy(out'.token)
           THEN /\ ~out'.raised
                /\ out'.headers = [Authorization |-> <<"Zoho-oauthtoken", " ", out'.token>>,
                                   ContentType |-> "application/json"]
           ELSE out'.raised /\ out'.headers = NoHeaders
        /\ (out.op = "get_valid_access_token" /\ Truthy(out.token)) =>
             (~out'.raised /\ Truthy(out'.token)) ]_vars

\* C11: when the redirect carries an error and no code, the flow sends no
\* code-exchange request and saves nothing; authorize_interactive fails and
\* leaves memory and the durable record as they were; get_valid_access_token
\* returns nothing (get_headers raises), and when no refresh was attempted
\* before the flow the whole call leaves memory and the record as they were.
C11_ErrorRedirectNoExchange ==
  [][ Has(out'.log, "auth_error") =>
        /\ ~Has(out'.log, "code_post")
        /\ ~Has(out'.log, "exchanged")
        /\ out'.saved = <<>>
        /\ out'.op = "authorize_interactive" =>
             (~out'.ok /\ ~out'.raised /\ mem' = mem /\ file' = file)
        /\ out'.op = "get_valid_access_token" => (out'.token = None /\ ~out'.raised)
        /\ out'.op = "get_headers" => (out'.token = None /\ out'.raised)
        /\ (out'.op \in {"get_valid_access_token", "get_headers"}
              /\ ~Has(out'.log, "refresh_post")) => (mem' = mem /\ file' = file) ]_vars

\* C11 witness: get_valid_access_token, holding a record, tried the refresh,
\* went to the interactive flow, got ?error=access_denied and returned nothing.
C11_Witness ==
  /\ out.op = "get_valid_access_token"
  /\ Has(out.log, "refresh_failed")
  /\ HasEv(out.log, "auth_error", "access_denied")
  /\ out.token = None
  /\ file.kind = "object"
  /\ Truthy(mem.refresh_token)

\* C12: whenever authorize_interactive returns after its listener was bound
\* (with a code, with a provider error, or by timeout), the listener socket
\* has been closed; on timeout the flow's outcome is failure.
C12_ListenerReleased ==
  (out.op = "authorize_interactive" /\ Has(out.log, "browser_open")) =>
    /\ Has(out.log, "socket_closed")
    /\ Has(out.log, "auth_timeout") => ~out.ok

\* The codes of the redirects, received on the callback path, that the log
\* records.
CallbackCodes(l) ==
  { l[i].arg.code : i \in { j \in 1..Len(l) : /\ l[j].ev = "redirect"
                                               /\ l[j].arg.path = CallbackPath
                                               /\ l[j].arg.code # ABSENT } }

\* C13: with no durable record, a get_valid_access_token call whose
\* interactive flow receives a redirect on the callback path carrying code C
\* sends no refresh request and exactly one code-exchange request, carrying
\* C; when the 200 response is saved the durable record is created holding
\* the response's access_token and refresh_token and the call returns that
\* access token; otherwise no credential record exists and nothing is
\* returned.
C13_FirstRunAcquisition ==
  [][ (file.kind = "absent" /\ out'.op = "get_valid_access_token"
         /\ CallbackCodes(out'.log) # {}) =>
        /\ ~Has(out'.log, "refresh_post")
        /\ Count(out'.log, "code_post") = 1
        /\ \A c \in CallbackCodes(out'.log) : HasEv(out'.log, "code_post", c)
        /\ Has(out'.log, "exchanged") <=> out'.saved # <<>>
        /\ out'.saved # <<>> =>
             LET b == out'.saved[1]
             IN  /\ Len(out'.saved) = 1
                 /\ file'.kind = "object"
                 /\ "access_token" \in b.keys =>
                      /\ file'.access_token = b.access_token
                      /\ mem'.access_token = b.access_token
                      /\ out'.token = b.access_token
                 /\ "refresh_token" \in b.keys =>
                      /\ file'.refresh_token = b.refresh_token
                      /\ mem'.refresh_token = b.refresh_token
        /\ out'.saved = <<>> => (out'.token = None /\ file'.kind # "object") ]_vars

\* C13 witness: a first run that got ?code=ABC on /callback, posted ABC, got
\* {access_token: T2, refresh_token: R2, ...} and returned T2 with the record
\* written.
C13_Witness ==
  /\ out.op = "get_valid_access_token"
  /\ Has(out.log, "no_refresh_token")
  /\ HasEv(out.log, "redirect", [path |-> CallbackPath, code |-> "ABC", error |-> ABSENT])
  /\ HasEv(out.log, "code_post", "ABC")
  /\ out.saved = <<FullBody>>
  /\ out.token = "T2"
  /\ file.kind = "object"
  /\ file.access_token = "T2"
  /\ file.refresh_token = "R2"
  /\ mem.refresh_token = "R2"

\* C14: after every successful save of a response with a positive
\* expires_in, expires_at in memory and in the durable record equals the
\* time of the save plus expires_in.
C14_ExpiresAtIsSaveTimePlusLifetime ==
  (out.saved # <<>> /\ "expires_in" \in out.saved[1].keys /\ out.saved[1].expires_in > 0) =>
    /\ file.kind = "object"
    /\ mem.token_expires_at = now + out.saved[1].expires_in
    /\ file.expires_at = now + out.saved[1].expires_in

\* C14 witness: a refresh, some time after start, saved a response with
\* expires_in = 300.
C14_Witness ==
  /\ out.op = "refresh_access_token"
  /\ out.saved = <<ShortBody>>
  /\ now > StartTime
  /\ mem.token_expires_at = now + Margin
  /\ file.expires_at = now + Margin

\* C15: after every successful save, each in-memory credential field
\* (access_token, refresh_token, expires_at, api_domain, and the scope the
\* handler holds) equals the corresponding field of the record just written.
C15_MemoryEqualsRecord ==
  out.saved # <<>> =>
    /\ file.kind = "object"
    /\ mem.access_token = file.access_token
    /\ mem.refresh_token = file.refresh_token
    /\ mem.token_expires_at = file.expires_at
    /\ mem.api_domain_for_tokens = file.api_domain
    /\ ConfigScope = file.scope

C17_RevokeIdempotent ==
  [][ out'.op = "revoke_tokens" =>
        /\ (file.kind = "absent" /\ ~Truthy(mem.refresh_token)) =>
             /\ ~Has(out'.log, "revoke_post")
             /\ ~Has(out'.log, "remove")
             /\ out'.ok
             /\ mem' = EmptyMem
             /\ file'.kind = "absent"
        /\ (out.op = "revoke_tokens" /\ out.ok) =>
             /\ out'.ok
             /\ ~Has(out'.log, "revoke_post")
             /\ mem' = mem
             /\ file' = file
        /\ (out.op = "revoke_tokens"
              /\ \/ HasEv(out.log, "response", "error") /\ HasEv(out'.log, "response", "error")
                 \/ HasEv(out.log, "remove", "fail") /\ HasEv(out'.log, "remove", "fail")) =>
             (mem' = mem /\ file' = file /\ ~out'.ok) ]_vars

\* C17 witness: a revoke_tokens call that found no refresh token and no file,
\* did nothing and returned true.
C17_Witness ==
  /\ out.op = "revoke_tokens"
  /\ out.ok
  /\ out.log = <<Ev("revoked", None)>>
  /\ mem = EmptyMem
  /\ file.kind = "absent"

\* C18: every outbound POST (code exchange, refresh, revoke) is bounded by a
\* timeout: a call waiting on the provider eventually returns, also when the
\* provider never answers.
C18_EveryPostReturns == [](out.pc = "posting" => <>(out.pc = "returned"))

\* The client id or the client secret is absent (unset or empty).
CredentialsAbsent == ~Truthy(out.client_id) \/ ~Truthy(out.client_secret)

\* The requests a tool call sent: to the token or revoke endpoint, or to the
\* API.
RequestsSent(l) ==
  Count(l, "refresh_post") + Count(l, "code_post") + Count(l, "revoke_post")
    + Count(l, "api_request")

C20_ReaderSeesCompleteRecord == out.seen.kind \in {"not_read", "absent", "object"}

\* C21: the interactive wait is bounded by a hard deadline of 300 s: a flow
\* whose listener was started returns no later than 300 s after it began, and
\* a flow that ends in a timeout returns at exactly that deadline, whatever
\* requests arrive and whenever they arrive.
C21_WaitEndsAtDeadline ==
  [][ (out'.op = "authorize_interactive" /\ Has(out'.log, "browser_open")) =>
        /\ now' <= now + WaitDeadline
        /\ Has(out'.log, "auth_timeout") => now' = now + WaitDeadline ]_vars

\* C22: at most one mutation of the credentials is in flight at any time:
\* with two callers of get_valid_access_token on a stale token, never are two
\* refresh exchanges both sent, nor two interactive flows both running.
C22_OneMutationInFlight ==
  /\ Cardinality({ c \in Callers : out.pc[c] = "posting" }) <= 1
  /\ Cardinality({ c \in Callers : out.pc[c] = "listening" }) <= 1

\* C23: only the first qualifying redirect of a flow is honored: a flow takes
\* a code or an error from at most one request, the one code it exchanges is
\* the code of that request (an error of that request is the error it
\* reports, with no exchange), and a redirect sent afterwards is not served.
C23_FirstRedirectOnly ==
  out.op = "authorize_interactive" =>
    /\ Count(out.log, "redirect") <= 1
    /\ Count(out.log, "code_post") <= 1
    /\ \A i \in 1..Len(out.log) :
         out.log[i].ev = "redirect" =>
           /\ \A j \in 1..Len(out.log) : out.log[j].ev = "not_served" => i < j
           /\ IF out.log[i].arg.code # ABSENT
              THEN /\ HasEv(out.log, "code_post", out.log[i].arg.code)
                   /\ ~Has(out.log, "auth_error")
              ELSE /\ HasEv(out.log, "auth_error", out.log[i].arg.error)
                   /\ ~Has(out.log, "code_post")

\* C23 witness: a flow that got ?code=ABC, was sent ?code=DEF right after,
\* did not serve it, and exchanged ABC.
C23_Witness ==
  /\ out.op = "authorize_interactive"
  /\ HasEv(out.log, "redirect", [path |-> CallbackPath, code |-> "ABC", error |-> ABSENT])
  /\ HasEv(out.log, "not_served", [path |-> CallbackPath, code |-> "DEF", error |-> ABSENT])
  /\ HasEv(out.log, "code_post", "ABC")
  /\ ~HasEv(out.log, "code_post", "DEF")
  /\ out.ok

\* C24: the listener accepts no request outside the callback path: a request
\* whose path is not exactly the callback path never sets the flow's code or
\* error, also when its path begins with the callback path (/callbackX?code=).
C24_OnlyCallbackPathAccepted ==
  out.op = "authorize_interactive" =>
    \A i \in 1..Len(out.log) :
      out.log[i].ev = "redirect" => out.log[i].arg.path = CallbackPath

\* C25: in every interactive flow the listener is constructed (bound and
\* listening) before the browser is opened on the authorization URL, and the
\* browser is never opened when the listener could not be started.
C25_ListenerBeforeBrowser ==
  out.op = "authorize_interactive" =>
    /\ Count(out.log, "browser_open") <= 1
    /\ Has(out.log, "browser_open") =>
         /\ Count(out.log, "listener_bind") = 1
         /\ Before(out.log, "listener_bind", "browser_open")
         /\ ~Has(out.log, "interactive_error")
    /\ Has(out.log, "interactive_error") => ~Has(out.log, "browser_open")

\* C25 witness: a flow whose redirect came back as soon as the browser was
\* opened and was received by the listener, bound before that.
C25_Witness ==
  /\ out.op = "authorize_interactive"
  /\ Before(out.log, "listener_bind", "browser_open")
  /\ Before(out.log, "browser_open", "redirect")
  /\ HasEv(out.log, "redirect", [path |-> CallbackPath, code |-> "ABC", error |-> ABSENT])
  /\ now = StartTime
  /\ out.ok

\* C26: when no refresh token is held, refresh_access_token fails at once as
\* a local check: it sends no request, saves nothing and changes neither
\* memory nor the record; and a get_valid_access_token call that finds the
\* token not valid goes from that check straight to the interactive flow.
C26_NoRefreshTokenNoRequest ==
  [][ ~Truthy(mem.refresh_token) =>
        /\ out'.op = "refresh_access_token" =>
             /\ ~out'.ok
             /\ ~out'.raised
             /\ out'.log = <<Ev("no_refresh_token", None)>>
             /\ out'.saved = <<>>
             /\ mem' = mem
             /\ file' = file
             /\ now' = now
        /\ (out'.op = "get_valid_access_token" /\ ~is_token_valid(mem, now)) =>
             /\ ~Has(out'.log, "refresh_post")
             /\ Len(out'.log) >= 2
             /\ out'.log[1] = Ev("no_refresh_token", None)
             /\ out'.log[2].ev = "interactive_start" ]_vars

\* C26 witness: a get_valid_access_token call that held no refresh token,
\* sent no refresh request, ran the interactive flow and returned its token.
C26_Witness ==
  /\ out.op = "get_valid_access_token"
  /\ Len(out.log) >= 2
  /\ out.log[1] = Ev("no_refresh_token", None)
  /\ out.log[2].ev = "interactive_start"
  /\ ~Has(out.log, "refresh_post")
  /\ Has(out.log, "exchanged")
  /\ Truthy(out.token)

\* C27: expires_at is never advanced artificially: after construction the
\* in-memory and the durable expires_at change only in a successful save of a
\* received response (to the save time plus the lifetime that response
\* gives) or in a revoke (cleared); every other call, a failed exchange and
\* a failed interactive flow included, leaves both as they were.
C27_ExpiresAtOnlyFromResponse ==
  [][ (out'.op \notin {"construct", "tick"}
         /\ (mem'.token_expires_at # mem.token_expires_at \/ file'.expires_at # file.expires_at)) =>
        \/ /\ out'.saved # <<>>
           /\ mem'.token_expires_at = now' + Get(out'.saved[1], "expires_in", DefaultExpiresIn)
           /\ file'.expires_at = mem'.token_expires_at
        \/ /\ out'.op = "revoke_tokens"
           /\ mem'.token_expires_at = NoneNum
           /\ file'.expires_at \in {NoneNum, file.expires_at} ]_vars

\* C28: the listener follows the configured redirect URI: the address the
\* flow's listener is bound to is the host and port of the redirect URI the
\* authorization URL carries, and the callback path it accepts is that URI's
\* path.
C28_ListenerFollowsRedirectUri ==
  out.op = "authorize_interactive" =>
    \A i, j \in 1..Len(out.log) :
      (out.log[i].ev = "listener_bind" /\ out.log[j].ev = "browser_open") =>
        /\ out.log[i].arg.host = out.log[j].arg.host
        /\ out.log[i].arg.port = out.log[j].arg.port
        /\ CallbackPath = out.log[j].arg.path

\* C29: get_valid_access_token returns nothing only after the interactive
\* flow was attempted and failed in that same call; and whenever the refresh
\* or the code exchange is reported as successful, a non-empty access token
\* is held afterwards, also when the 200 answer carries no access_token.
C29_SuccessHoldsToken ==
  /\ (out.op = "get_valid_access_token" /\ ~Truthy(out.token)) =>
       (Has(out.log, "interactive_start") /\ InteractiveFailed(out.log))
  /\ (Has(out.log, "refreshed") \/ Has(out.log, "exchanged")) => Truthy(mem.access_token)

\* C30: once a refresh token is held it stays held, in memory and in the
\* durable record, across get_valid_access_token, refresh, code exchange and
\* get_headers, whatever the provider answers; only revoke_tokens makes it
\* absent.
C30_RefreshTokenStaysHeld ==
  [][ out'.op \in {"get_valid_access_token", "get_headers", "refresh_access_token",
                    "authorize_interactive"} =>
        /\ Truthy(mem.refresh_token) => Truthy(mem'.refresh_token)
        /\ (file.kind = "object" /\ Truthy(file.refresh_token)) =>
             (file'.kind = "object" /\ Truthy(file'.refresh_token)) ]_vars

\* C31: at every point between operations the in-memory access_token,
\* refresh_token and expires_at agree with the durable record: they equal
\* the record's fields, or there is no record and all three are absent; so a
\* restart after revoke_tokens has cleared memory loads nothing back.
C31_MemoryAgreesWithRecord ==
  IF file.kind = "object"
  THEN /\ mem.access_token = file.access_token
       /\ mem.refresh_token = file.refresh_token
       /\ mem.token_expires_at = file.expires_at
  ELSE /\ mem.access_token = None
       /\ mem.refresh_token = None
       /\ mem.token_expires_at = NoneNum

\* C32: save followed by a restart is a round trip: after a successful save,
\* a handler newly constructed on the same record holds the access_token,
\* refresh_token, expires_at and api_domain of the handler that saved them
\* (expires_at is not recomputed on load), and its is_token_valid gives the
\* same answer at the same time.
C32_SaveRestartRoundTrip ==
  out.saved # <<>> =>
    /\ ~Construct(file).raised
    /\ Construct(file).mem.access_token = mem.access_token
    /\ Construct(file).mem.refresh_token = mem.refresh_token
    /\ Construct(file).mem.token_expires_at = mem.token_expires_at
    /\ Construct(file).mem.api_domain_for_tokens = mem.api_domain_for_tokens
    /\ is_token_valid(Construct(file).mem, now) = is_token_valid(mem, now)

\* C32 witness: a refresh, some time after start, has just saved T2 with the
\* provider's domain D2 and a lifetime of 900 s, and the handler holds a
\* valid token.
C32_Witness ==
  /\ out.op = "refresh_access_token"
  /\ out.saved = <<FullBody>>
  /\ now > StartTime
  /\ mem.access_token = "T2"
  /\ mem.token_expires_at = now + 3 * TickStep
  /\ mem.api_domain_for_tokens = "D2"
  /\ is_token_valid(mem, now)
  /\ Construct(file).mem = mem

====
